---- MODULE Spec2Model ----
(***************************************************************************)
(* A model of ScraperB3Derivatives (webscrapers/B3derivatives):            *)
(* the marker-driven row scanner and field slicer of _scrape_single_date,  *)
(* the normalisation steps, the maturity-code translation, the date-range  *)
(* loop of scrape and the de-duplicating upload of _send_df_to_db.         *)
(* Text is modelled character by character: a Python str is a sequence of  *)
(* one-character strings.                                                  *)
(***************************************************************************)
EXTENDS Integers, Sequences, FiniteSets

\* ------------------------------------------------------------------------
\* Bounds of the model
\* ------------------------------------------------------------------------

\* longest synthetic page, counted in segments (markers or filler text)
MaxSegs == 3

\* most retained cells in a synthetic short row
MaxCells == 3

\* most rows of a table handed to the normaliser
MaxNormRows == 2

\* most rows of a table handed to the maturity translator
MaxMatRows == 2

\* most days of a date range
MaxDays == 2

\* most uploads in a row, and most rows of an uploaded table
MaxSends == 2

MaxSendRows == 1

\* ------------------------------------------------------------------------
\* Class-level string constants
\* ------------------------------------------------------------------------

key_string_center == <<"<", "/", "t", "r", ">", "<", "t", "d", " ", "c", "l", "a", "s", "s", "=", "\"", "t", "e", "x", "t", "-", "c", "e", "n", "t", "e", "r", "\"", ">">>

sep_string_center == <<"<", "t", "d", " ", "c", "l", "a", "s", "s", "=", "\"", "t", "e", "x", "t", "-", "c", "e", "n", "t", "e", "r", "\"", ">">>

sep_string_right == <<"<", "t", "d", " ", "c", "l", "a", "s", "s", "=", "\"", "t", "e", "x", "t", "-", "r", "i", "g", "h", "t", "\"", ">">>

str_sep == <<"<", "/", "t", "d", ">">>

merc_identifier == <<"M", "e", "r", "c", "F", "u", "t", "3", " ", "=", " ", "M", "e", "r", "c", "F", "u", "t", "3", " ", "+", " ">>

item_sep == <<";">>

lkeyc == Len(key_string_center)

lsepc == Len(sep_string_center)

lsepr == Len(sep_string_right)

\* ------------------------------------------------------------------------
\* Python str and list primitives used by the scraper
\* ------------------------------------------------------------------------

MinOf(S) == CHOOSE x \in S : \A y \in S : x <= y

\* s.find(p): the lowest 0-based index at which p occurs in s, or -1
PyFind(s, p) ==
    LET hits == {i \in 0..(Len(s) - Len(p)) : \A k \in 1..Len(p) : s[i + k] = p[k]}
    IN  IF hits = {} THEN -1 ELSE MinOf(hits)

\* a slice bound as Python normalises it: negative bounds count from the end
PyBound(n, i) == IF i < 0 THEN (IF n + i < 0 THEN 0 ELSE n + i)
                 ELSE (IF i > n THEN n ELSE i)

\* s[a:b]
PySlice(s, a, b) ==
    LET lo == PyBound(Len(s), a)
        hi == PyBound(Len(s), b)
    IN  IF lo >= hi THEN <<>> ELSE SubSeq(s, lo + 1, hi)

\* s[a:]
PySliceFrom(s, a) == PySlice(s, a, Len(s))

\* s.split(sep)
RECURSIVE PySplit(_, _)
PySplit(s, sep) ==
    LET i == PyFind(s, sep)
    IN  IF i = -1 THEN <<s>>
        ELSE <<PySlice(s, 0, i)>> \o PySplit(PySliceFrom(s, i + Len(sep)), sep)

\* v[:-(k-1)]: a variant of PyDropLast that keeps one element more
PyDropLastButOne(v, k) == IF Len(v) <= k - 1 THEN <<>> ELSE SubSeq(v, 1, Len(v) - (k - 1))

\* v[:-k] of a list
PyDropLast(v, k) == IF Len(v) <= k THEN <<>> ELSE SubSeq(v, 1, Len(v) - k)

\* s.replace(' ', '')
RECURSIVE StripSpaces(_)
StripSpaces(s) ==
    IF s = <<>> THEN <<>>
    ELSE IF Head(s) = " " THEN StripSpaces(Tail(s))
    ELSE <<Head(s)>> \o StripSpaces(Tail(s))

\* ------------------------------------------------------------------------
\* Cells of a DataFrame: NaN, a str or a number (mant / 10^exp)
\* ------------------------------------------------------------------------

NaN == [kind |-> "nan", s |-> <<>>, mant |-> 0, exp |-> 0]

StrCell(s) == [kind |-> "str", s |-> s, mant |-> 0, exp |-> 0]

NumCell(m, e) == [kind |-> "num", s |-> <<>>, mant |-> m, exp |-> e]

\* ------------------------------------------------------------------------
\* _get_header
\* ------------------------------------------------------------------------

HeaderA == <<"MATURITY_CODE", "OPEN_INTEREST_OPEN", "OPEN_INTEREST_CLOSE", "NUMBER_OF_TRADES",
             "TRADING_VOLUME", "FINANCIAL_VOLUME", "JUNK1", "PREVIOUS_SETTLEMENT", "INDEXED_SETTLEMENT",
             "OPENING_PRICE", "MINIMUM_PRICE", "MAXIMUM_PRICE", "AVERAGE_PRICE", "LAST_PRICE",
             "SETTLEMENT_PRICE", "CHANGE", "LAST_BID", "LAST_OFFER">>

HeaderB == <<"MATURITY_CODE", "OPEN_INTEREST_OPEN", "OPEN_INTEREST_CLOSE", "NUMBER_OF_TRADES",
             "TRADING_VOLUME", "FINANCIAL_VOLUME", "JUNK1", "OPENING_PRICE", "MINIMUM_PRICE", "MAXIMUM_PRICE",
             "AVERAGE_PRICE", "LAST_PRICE", "SETTLEMENT_PRICE", "CHANGE", "LAST_BID", "LAST_OFFER">>

HeaderC == <<"MATURITY_CODE", "NUMBER_OF_TRADES", "TRADING_VOLUME", "FINANCIAL_VOLUME", "JUNK1",
             "OPENING_PRICE", "MINIMUM_PRICE", "MAXIMUM_PRICE", "AVERAGE_PRICE", "LAST_PRICE",
             "SETTLEMENT_PRICE", "CHANGE", "LAST_BID", "LAST_OFFER">>

FamilyA == {<<"D", "I", "1">>, <<"D", "A", "P">>, <<"D", "D", "I">>}

FamilyB == {<<"D", "O", "L">>, <<"B", "G", "I">>, <<"I", "C", "F">>, <<"C", "C", "M">>, <<"A", "U", "D">>}

FamilyC == {<<"F", "R", "C">>}

\* the header of a contract; <<>> stands for the raise of the else branch
get_header(c) ==
    IF c \in FamilyA THEN HeaderA
    ELSE IF c \in FamilyB THEN HeaderB
    ELSE IF c \in FamilyC THEN HeaderC
    ELSE <<>>

\* whether _get_header raises AttributeError for the contract
get_header_raises(c) == c \notin (FamilyA \cup FamilyB \cup FamilyC)

\* ------------------------------------------------------------------------
\* The field slicer: the for loop over core_v[:-5]
\* ------------------------------------------------------------------------

\* One pass of the loop body for sub-fragment x, with the slice bounds
\* start_str and end_str as the previous pass (or the scanner) left them.
SliceBounds(x, start_str, end_str) ==
    IF PyFind(x, sep_string_center) > -1
    THEN [start_str |-> PyFind(x, sep_string_center) + lsepc, end_str |-> PyFind(x, str_sep)]
    ELSE IF PyFind(x, sep_string_right) > -1
    THEN [start_str |-> PyFind(x, sep_string_right) + lsepr, end_str |-> PyFind(x, str_sep)]
    ELSE [start_str |-> start_str, end_str |-> end_str]

\* The loop from sub-fragment i+1 on (i as in the code, 0-based): the row
\* and whether header[i] raised IndexError.
RECURSIVE SliceFrom(_, _, _, _, _, _)
SliceFrom(xs, i, header, row, start_str, end_str) ==
    IF i >= Len(xs) THEN [row |-> row, err |-> "none"]
    ELSE LET b == SliceBounds(xs[i + 1], start_str, end_str)
             to_add == StripSpaces(PySlice(xs[i + 1], b.start_str, b.end_str))
         IN  IF to_add # <<>>
             THEN IF i >= Len(header)
                  THEN [row |-> row, err |-> "IndexError"]
                  ELSE SliceFrom(xs, i + 1, header, [row EXCEPT ![i + 1] = StrCell(to_add)],
                                 b.start_str, b.end_str)
             ELSE SliceFrom(xs, i + 1, header, row, b.start_str, b.end_str)

\* row_df = pd.DataFrame(index=[date], columns=header): one row of NaN
EmptyRow(header) == [k \in 1..Len(header) |-> NaN]

SliceRow(cv, header, start_str, end_str) ==
    SliceFrom(PyDropLast(cv, 5), 0, header, EmptyRow(header), start_str, end_str)

\* ------------------------------------------------------------------------
\* The row scanner: one iteration of the while loop
\* ------------------------------------------------------------------------

\* a variant of FragmentEnd that ends the fragment right after its
\* row-start marker, whatever follows
FragmentEndAtMarker(text, start_str) == start_str + lkeyc

\* the end of the fragment that starts at start_str
FragmentEnd(text, start_str) ==
    start_str + lkeyc + PyFind(PySliceFrom(text, start_str + lkeyc), merc_identifier)

\* One iteration that found a row-start marker: the fragment, its split,
\* the text left to scan, the row and the error of the slicer.
ScanOnce(text, header) ==
    LET start_str == PyFind(text, key_string_center)
        end_str == FragmentEnd(text, start_str)
        core == PySlice(text, start_str, end_str)
        cv == PySplit(core, item_sep)
        r == SliceRow(cv, header, start_str, end_str)
    IN  [core |-> core, core_v |-> cv, rest |-> PySliceFrom(text, end_str),
         row |-> r.row, err |-> r.err]

\* ------------------------------------------------------------------------
\* DataFrames: columns, their dtypes, and rows of an index label and cells
\* ------------------------------------------------------------------------

FrameOf(cols, dts, rws) == [columns |-> cols, dtypes |-> dts, rows |-> rws]

\* pd.DataFrame(): no columns, no rows
EmptyFrame == FrameOf(<<>>, <<>>, <<>>)

\* the table the scan loop leaves: pd.DataFrame(columns=header) and one
\* row per fragment, each indexed by the date string
RawFrame(header, date, rws) ==
    FrameOf(header, [k \in 1..Len(header) |-> "object"],
            [k \in 1..Len(rws) |-> [idx |-> date, vals |-> rws[k]]])

\* ------------------------------------------------------------------------
\* _parse_str2num
\* ------------------------------------------------------------------------

col2num == {"OPEN_INTEREST_OPEN", "OPEN_INTEREST_CLOSE", "NUMBER_OF_TRADES", "TRADING_VOLUME", "FINANCIAL_VOLUME",
            "PREVIOUS_SETTLEMENT", "INDEXED_SETTLEMENT", "OPENING_PRICE", "MINIMUM_PRICE", "MAXIMUM_PRICE",
            "AVERAGE_PRICE", "LAST_PRICE", "SETTLEMENT_PRICE", "LAST_BID", "LAST_OFFER"}

col2drop == {"JUNK1", "CHANGE", "VARIATION"}

Digits == <<"0", "1", "2", "3", "4", "5", "6", "7", "8", "9">>

IsDigit(ch) == \E v \in 1..10 : Digits[v] = ch

DigitVal(ch) == (CHOOSE v \in 1..10 : Digits[v] = ch) - 1

\* re.sub('[^0-9.]', '', s)
RECURSIVE KeepNumeric(_)
KeepNumeric(s) ==
    IF s = <<>> THEN <<>>
    ELSE IF IsDigit(Head(s)) \/ Head(s) = "." THEN <<Head(s)>> \o KeepNumeric(Tail(s))
    ELSE KeepNumeric(Tail(s))

\* the digits of s read as a decimal integer
RECURSIVE IntOf(_)
IntOf(s) == IF s = <<>> THEN 0 ELSE 10 * IntOf(SubSeq(s, 1, Len(s) - 1)) + DigitVal(s[Len(s)])

\* mant / 10^exp without trailing zeros in the fraction
RECURSIVE Reduced(_, _)
Reduced(m, e) == IF e > 0 /\ m % 10 = 0 THEN Reduced(m \div 10, e - 1) ELSE NumCell(m, e)

\* pd.to_numeric(errors='coerce') of a string of digits and points
ToNumeric(s) ==
    LET dots == {k \in 1..Len(s) : s[k] = "."}
    IN  IF Cardinality(dots) > 1 \/ Len(s) = Cardinality(dots) THEN NaN
        ELSE IF dots = {} THEN NumCell(IntOf(s), 0)
        ELSE LET d == CHOOSE k \in dots : TRUE
             IN  Reduced(IntOf(SubSeq(s, 1, d - 1) \o SubSeq(s, d + 1, Len(s))), Len(s) - d)

\* one cell of an object column through .str.replace and to_numeric
ParseCell(c) == IF c.kind = "str" THEN ToNumeric(KeepNumeric(c.s)) ELSE NaN

\* the .str accessor raises AttributeError on a column that is not of
\* object dtype
parse_str2num(f) ==
    LET parse == {k \in 1..Len(f.columns) : f.columns[k] \in col2num}
    IN  IF \E k \in parse : f.dtypes[k] # "object"
        THEN [df |-> f, err |-> "AttributeError"]
        ELSE [df |-> FrameOf(f.columns,
                             [k \in 1..Len(f.columns) |-> IF k \in parse THEN "float64" ELSE f.dtypes[k]],
                             [r \in 1..Len(f.rows) |->
                                 [idx |-> f.rows[r].idx,
                                  vals |-> [k \in 1..Len(f.columns) |->
                                               IF k \in parse THEN ParseCell(f.rows[r].vals[k])
                                               ELSE f.rows[r].vals[k]]]]),
              err |-> "none"]

\* ------------------------------------------------------------------------
\* _drop_useless_columns
\* ------------------------------------------------------------------------

NotDropped(c) == c \notin col2drop

\* the positions from k on of the columns of q that are not dropped, in order
RECURSIVE KeepPositions(_, _)
KeepPositions(q, k) ==
    IF k > Len(q) THEN <<>>
    ELSE (IF NotDropped(q[k]) THEN <<k>> ELSE <<>>) \o KeepPositions(q, k + 1)

drop_useless_columns(f) ==
    LET keep == KeepPositions(f.columns, 1)
    IN  FrameOf([k \in 1..Len(keep) |-> f.columns[keep[k]]],
                [k \in 1..Len(keep) |-> f.dtypes[keep[k]]],
                [r \in 1..Len(f.rows) |->
                    [idx |-> f.rows[r].idx,
                     vals |-> [k \in 1..Len(keep) |-> f.rows[r].vals[keep[k]]]]])

\* ------------------------------------------------------------------------
\* _append_contract_column
\* ------------------------------------------------------------------------

append_contract_column(c, date, f) ==
    FrameOf(<<"CONTRACT">> \o f.columns, <<"object">> \o f.dtypes,
            [r \in 1..Len(f.rows) |->
                [idx |-> f.rows[r].idx, vals |-> <<StrCell(c)>> \o f.rows[r].vals]])

\* lines 149-151: the three normalisation steps in the order of the code
Normalize(c, date, f) ==
    LET p == parse_str2num(f)
    IN  IF p.err # "none" THEN p
        ELSE [df |-> append_contract_column(c, date, drop_useless_columns(p.df)), err |-> "none"]

\* ------------------------------------------------------------------------
\* _change_contract_name and _change_old_maturity_code
\* ------------------------------------------------------------------------

mat_dict == [abbr \in {<<"J", "A", "N">>, <<"F", "E", "V">>, <<"M", "A", "R">>, <<"A", "B", "R">>,
                       <<"M", "A", "I">>, <<"J", "U", "N">>, <<"J", "U", "L">>, <<"A", "G", "O">>,
                       <<"S", "E", "T">>, <<"O", "U", "T">>, <<"N", "O", "V">>, <<"D", "E", "Z">>} |->
    CASE abbr = <<"J", "A", "N">> -> "F"
      [] abbr = <<"F", "E", "V">> -> "G"
      [] abbr = <<"M", "A", "R">> -> "H"
      [] abbr = <<"A", "B", "R">> -> "J"
      [] abbr = <<"M", "A", "I">> -> "K"
      [] abbr = <<"J", "U", "N">> -> "M"
      [] abbr = <<"J", "U", "L">> -> "N"
      [] abbr = <<"A", "G", "O">> -> "Q"
      [] abbr = <<"S", "E", "T">> -> "U"
      [] abbr = <<"O", "U", "T">> -> "V"
      [] abbr = <<"N", "O", "V">> -> "X"
      [] abbr = <<"D", "E", "Z">> -> "Z"]

\* a variant of DecadePrefix that gives the tie to the next decade
DecadePrefixStrict(code_digit, date_digit) == IF code_digit > date_digit THEN "0" ELSE "1"

\* int(code[-1]) >= int(date[-1])
DecadePrefix(code_digit, date_digit) == IF code_digit >= date_digit THEN "0" ELSE "1"

\* the new code of one cell, or the exception the lookup or int() raises
change_old_maturity_code(code, date) ==
    IF code.kind # "str" THEN [code |-> code, err |-> "TypeError"]
    ELSE LET abbr == PySlice(code.s, 0, -1)
             last == code.s[Len(code.s)]
         IN  IF abbr \notin DOMAIN mat_dict THEN [code |-> code, err |-> "KeyError"]
             ELSE IF ~IsDigit(last) THEN [code |-> code, err |-> "ValueError"]
             ELSE [code |-> StrCell(<<mat_dict[abbr],
                                      DecadePrefix(DigitVal(last), DigitVal(date[Len(date)])),
                                      last>>),
                   err |-> "none"]

\* whether the table is taken to be in the legacy format: line 224
IsLegacyTable(codes) == Len(codes[1].s) >= 4

\* the MATURITY_CODE column after _change_contract_name, for a column of
\* at least one row
change_contract_name(codes, date) ==
    IF codes[1].kind # "str" THEN [codes |-> codes, err |-> "TypeError"]
    ELSE IF ~IsLegacyTable(codes) THEN [codes |-> codes, err |-> "none"]
    ELSE LET res == [k \in 1..Len(codes) |-> change_old_maturity_code(codes[k], date)]
             bad == {k \in 1..Len(codes) : res[k].err # "none"}
         IN  IF bad # {} THEN [codes |-> codes, err |-> res[MinOf(bad)].err]
             ELSE [codes |-> [k \in 1..Len(codes) |-> res[k].code], err |-> "none"]

\* ------------------------------------------------------------------------
\* Pages the scanner is run on
\* ------------------------------------------------------------------------

RECURSIVE Cat(_)
Cat(q) == IF q = <<>> THEN <<>> ELSE Head(q) \o Cat(Tail(q))

SeqsUpTo(S, n) == UNION {[1..k -> S] : k \in 0..n}

CenterCell(v) == sep_string_center \o v \o str_sep

RightCell(v) == sep_string_right \o v \o str_sep

\* a cell with a marker the slicer does not know
JunkCell == <<"<", "t", "d", " ", "c", "l", "a", "s", "s", "=", "\"", "t", "e", "x", "t", "-", "l", "e", "f", "t", "\"", ">",
              "0", "1", "2", "3", "4", "5", "6", "7", "8", "9">> \o str_sep

\* the five trailing sub-fragments of a row, which the slicer discards
Trailer == Cat([k \in 1..5 |-> item_sep \o <<"'">>])

Segments == {key_string_center, merc_identifier, <<"a">>, item_sep}

SegPages == {Cat(q) : q \in SeqsUpTo(Segments, MaxSegs)}

FirstCells == {<<"J", "A", "N", "8">> \o str_sep, <<" ", "F", " ", "2", "3">> \o str_sep, str_sep}

OtherCells == {RightCell(<<"1", ".", "5">>), CenterCell(<<"x">>), JunkCell, <<>>,
               sep_string_right \o <<"7">>}

\* a row whose retained sub-fragments are first and cells
ShortRow(first, cells) ==
    key_string_center \o first \o Cat([k \in 1..Len(cells) |-> item_sep \o cells[k]])
        \o Trailer \o merc_identifier

ShortRowPages == {ShortRow(f, q) : f \in FirstCells, q \in SeqsUpTo(OtherCells, MaxCells - 1)}

\* a row with nsep field separators: a maturity cell, right-aligned cells
\* and the five trailing sub-fragments
FullRow(nsep) ==
    key_string_center \o <<"F", "2", "3">> \o str_sep
        \o Cat([k \in 1..(nsep - 5) |-> item_sep \o RightCell(<<"1">>)])
        \o Trailer \o merc_identifier

Headers == {HeaderA, HeaderB, HeaderC}

FullRowPages == {FullRow(Len(h) + 4) : h \in Headers} \cup {FullRow(Len(h) + 5) : h \in Headers}

ScanPages == SegPages \cup ShortRowPages \cup FullRowPages

Supported == FamilyA \cup FamilyB \cup FamilyC

\* ------------------------------------------------------------------------
\* Dates: Timestamps are day numbers of a window that starts on
\* 12/30/2009; strftime('%m/%d/%Y') and pd.to_datetime convert
\* ------------------------------------------------------------------------

TwoDigits(n) == <<Digits[(n \div 10) + 1], Digits[(n % 10) + 1]>>

FormatDate(mm, dd, yyyy) ==
    TwoDigits(mm) \o <<"/">> \o TwoDigits(dd) \o <<"/">> \o TwoDigits(yyyy \div 100) \o TwoDigits(yyyy % 100)

\* d.strftime('%m/%d/%Y') of day number n of the window
DayString(n) == IF n <= 2 THEN FormatDate(12, 29 + n, 2009) ELSE FormatDate(1, n - 2, 2010)

\* pd.to_datetime of a date string of the window
ParseDay(s) == CHOOSE n \in 1..33 : DayString(n) = s

\* a variant of date_range that leaves the end date out
date_range_open(s, e) == [k \in 1..(IF e > s THEN e - s ELSE 0) |-> s + k - 1]

\* pd.date_range(start=start_date, end=end_date): every day, both ends included
date_range(s, e) == [k \in 1..(IF e >= s THEN e - s + 1 ELSE 0) |-> s + k - 1]

\* ------------------------------------------------------------------------
\* str.upper and str.lower
\* ------------------------------------------------------------------------

Lowers == <<"a", "b", "c", "d", "e", "f", "g", "h", "i", "j", "k", "l", "m",
            "n", "o", "p", "q", "r", "s", "t", "u", "v", "w", "x", "y", "z">>

Uppers == <<"A", "B", "C", "D", "E", "F", "G", "H", "I", "J", "K", "L", "M",
            "N", "O", "P", "Q", "R", "S", "T", "U", "V", "W", "X", "Y", "Z">>

UpperChar(ch) == IF \E i \in 1..26 : Lowers[i] = ch
                 THEN Uppers[CHOOSE i \in 1..26 : Lowers[i] = ch] ELSE ch

LowerChar(ch) == IF \E i \in 1..26 : Uppers[i] = ch
                 THEN Lowers[CHOOSE i \in 1..26 : Uppers[i] = ch] ELSE ch

\* a variant of Upper that leaves the case as it is
UpperAsIs(c) == c

\* contract.upper()
Upper(c) == [k \in 1..Len(c) |-> UpperChar(c[k])]

\* ------------------------------------------------------------------------
\* _scrape_single_date
\* ------------------------------------------------------------------------

NoError == [type |-> "none", names |-> <<>>]

Raised(t, c) == [type |-> t, names |-> c]

\* the while loop: the rows appended until no row-start marker is left, or
\* the exception that leaves the loop
RECURSIVE ScanAll(_, _, _)
ScanAll(text, header, acc) ==
    IF PyFind(text, key_string_center) = -1 THEN [rows |-> acc, err |-> "none"]
    ELSE LET r == ScanOnce(text, header)
         IN  IF r.err # "none" THEN [rows |-> acc, err |-> r.err]
             ELSE ScanAll(r.rest, header, Append(acc, r.row))

\* the position of column name in the frame (its first, if repeated)
ColumnOf(f, name) == MinOf({k \in 1..Len(f.columns) : f.columns[k] = name})

\* df.index = pd.to_datetime(df.index)
IndexToDatetime(f) ==
    FrameOf(f.columns, f.dtypes,
            [r \in 1..Len(f.rows) |-> [idx |-> ParseDay(f.rows[r].idx), vals |-> f.rows[r].vals]])

\* df['MATURITY_CODE'] = codes
WithMaturity(f, codes) ==
    LET m == ColumnOf(f, "MATURITY_CODE")
    IN  FrameOf(f.columns, f.dtypes,
                [r \in 1..Len(f.rows) |->
                    [idx |-> f.rows[r].idx, vals |-> [f.rows[r].vals EXCEPT ![m] = codes[r]]]])

\* df['MATURITY_CODE']
MaturityColumn(f) == [r \in 1..Len(f.rows) |-> f.rows[r].vals[ColumnOf(f, "MATURITY_CODE")]]

RaisedBy(header, fetched, err) ==
    [kind |-> "raise", header |-> header, df |-> EmptyFrame, fetched |-> fetched, err |-> err]

\* lines 161-163: the table with the codes t of _change_contract_name
Translated(header, f, t) ==
    IF t.err # "none" THEN RaisedBy(header, TRUE, Raised(t.err, <<>>))
    ELSE [kind |-> "df", header |-> header, df |-> WithMaturity(f, t.codes),
          fetched |-> TRUE, err |-> NoError]

\* lines 155-163: None for a table without rows
ReturnDate(header, date, f) ==
    IF f.rows = <<>>
    THEN [kind |-> "None", header |-> header, df |-> EmptyFrame, fetched |-> TRUE, err |-> NoError]
    ELSE Translated(header, f, change_contract_name(MaturityColumn(f), date))

\* lines 149-153 with n the outcome of the normalisation steps
FinishDate(header, date, n) ==
    IF n.err # "none" THEN RaisedBy(header, TRUE, Raised(n.err, <<>>))
    ELSE ReturnDate(header, date, IndexToDatetime(n.df))

\* lines 116-151 with scan the outcome of the while loop
AfterScan(c, header, date, scan) ==
    IF scan.err # "none" THEN RaisedBy(header, TRUE, Raised(scan.err, <<>>))
    ELSE FinishDate(header, date, Normalize(c, date, RawFrame(header, date, scan.rows)))

\* lines 106-110: the header, or the raise before the fetch
SingleDate(c, date, text) ==
    IF get_header_raises(c) THEN RaisedBy(<<>>, FALSE, Raised("AttributeError", c))
    ELSE AfterScan(c, get_header(c), date, ScanAll(text, get_header(c), <<>>))

\* One call for contract argument arg, the date string and the text the
\* fetch returns: what is returned or raised, and whether the page was
\* fetched before.
scrape_single_date(arg, date, text) == SingleDate(Upper(arg), date, text)

\* ------------------------------------------------------------------------
\* pd.concat([df, df_date], join='outer')
\* ------------------------------------------------------------------------

\* the columns of g that f lacks, in g's order
RECURSIVE NewColumns(_, _, _)
NewColumns(f, g, k) ==
    IF k > Len(g.columns) THEN <<>>
    ELSE (IF \E j \in 1..Len(f.columns) : f.columns[j] = g.columns[k] THEN <<>> ELSE <<k>>)
         \o NewColumns(f, g, k + 1)

\* the cells of a row of frame f laid out on columns cols; NaN where f
\* has no such column
Realign(f, row, cols) ==
    [idx |-> row.idx,
     vals |-> [k \in 1..Len(cols) |->
                  IF \E j \in 1..Len(f.columns) : f.columns[j] = cols[k]
                  THEN row.vals[ColumnOf(f, cols[k])] ELSE NaN]]

Concat(f, g) ==
    LET extra == NewColumns(f, g, 1)
        cols == f.columns \o [k \in 1..Len(extra) |-> g.columns[extra[k]]]
        dts == f.dtypes \o [k \in 1..Len(extra) |-> g.dtypes[extra[k]]]
    IN  FrameOf(cols, dts,
                [r \in 1..Len(f.rows) |-> Realign(f, f.rows[r], cols)]
                    \o [r \in 1..Len(g.rows) |-> Realign(g, g.rows[r], cols)])

\* ------------------------------------------------------------------------
\* _send_df_to_db
\* ------------------------------------------------------------------------

\* str.lower of a column name
LowerName(name) ==
    CASE name = "CONTRACT" -> "contract"
      [] name = "MATURITY_CODE" -> "maturity_code"
      [] name = "OPEN_INTEREST_OPEN" -> "open_interest_open"
      [] name = "OPEN_INTEREST_CLOSE" -> "open_interest_close"
      [] name = "NUMBER_OF_TRADES" -> "number_of_trades"
      [] name = "TRADING_VOLUME" -> "trading_volume"
      [] name = "FINANCIAL_VOLUME" -> "financial_volume"
      [] name = "PREVIOUS_SETTLEMENT" -> "previous_settlement"
      [] name = "INDEXED_SETTLEMENT" -> "indexed_settlement"
      [] name = "OPENING_PRICE" -> "opening_price"
      [] name = "MINIMUM_PRICE" -> "minimum_price"
      [] name = "MAXIMUM_PRICE" -> "maximum_price"
      [] name = "AVERAGE_PRICE" -> "average_price"
      [] name = "LAST_PRICE" -> "last_price"
      [] name = "SETTLEMENT_PRICE" -> "settlement_price"
      [] name = "LAST_BID" -> "last_bid"
      [] name = "LAST_OFFER" -> "last_offer"
      [] OTHER -> name

\* df.columns = map(str.lower, df.columns)
LowerColumns(f) == FrameOf([k \in 1..Len(f.columns) |-> LowerName(f.columns[k])], f.dtypes, f.rows)

HasColumn(f, name) == \E k \in 1..Len(f.columns) : f.columns[k] = name

MaxOf(S) == CHOOSE x \in S : \A y \in S : x >= y

\* the (time_stamp, maturity_code) pairs the query returns: the rows of
\* the store with contract = the contract argument, between the two dates
QueryPairs(store, arg, min_date, max_date) ==
    {<<store[k].time_stamp, store[k].maturity_code>> :
        k \in {j \in 1..Len(store) : /\ store[j].contract = arg
                                     /\ store[j].time_stamp >= min_date
                                     /\ store[j].time_stamp <= max_date}}

\* the rows of the frame as the rows of the table B3futures
StoreRows(f, rws) ==
    [k \in 1..Len(rws) |-> [contract |-> rws[k].vals[ColumnOf(f, "contract")].s,
                            time_stamp |-> rws[k].idx,
                            maturity_code |-> rws[k].vals[ColumnOf(f, "maturity_code")]]]

\* whether appending rows add to the store breaks a unique key on
\* (contract, time_stamp, maturity_code)
BreaksUniqueKey(store, add) ==
    \/ \E i \in 1..Len(add) : \E j \in 1..Len(store) : add[i] = store[j]
    \/ \E i, j \in 1..Len(add) : i # j /\ add[i] = add[j]

\* The store after the upload of frame df for contract argument arg, and
\* the exception that escapes; an IntegrityError of the append is caught
\* and leaves the store as it was.
send_df_to_db(df, arg, store, unique) ==
    LET f == LowerColumns(df)
    IN  IF ~HasColumn(f, "maturity_code")
        THEN [store |-> store, err |-> "KeyError", caught |-> FALSE]
        ELSE LET m == ColumnOf(f, "maturity_code")
                 days == {f.rows[r].idx : r \in 1..Len(f.rows)}
                 df_db == QueryPairs(store, arg, MinOf(days), MaxOf(days))
                 PairOf(row) == <<row.idx, row.vals[m]>>
                 NotStored(row) == PairOf(row) \notin df_db
                 add == StoreRows(f, SelectSeq(f.rows, NotStored))
             IN  IF \E pr \in df_db : \A r \in 1..Len(f.rows) : PairOf(f.rows[r]) # pr
                 THEN [store |-> store, err |-> "KeyError", caught |-> FALSE]
                 ELSE IF unique /\ BreaksUniqueKey(store, add)
                 THEN [store |-> store, err |-> "none", caught |-> TRUE]
                 ELSE [store |-> store \o add, err |-> "none", caught |-> FALSE]

\* ------------------------------------------------------------------------
\* State
\* ------------------------------------------------------------------------

VARIABLES
    \* _scrape_single_date, the scan loop
    contract,   \* the upper-cased contract
    header,     \* the header of the contract
    page,       \* the text requests.get returned
    resp_str,   \* the text left to scan
    core_v,     \* the split of the last fragment
    row_df,     \* the last row built by the slicer
    df,         \* the rows appended so far
    cores,      \* the fragments yielded so far
    isrunning,  \* the loop flag
    scan_err,   \* "none", or the exception that left the loop
    \* the normalisation steps
    norm_contract,  \* the contract of the table
    norm_in,        \* the table handed to the last pass
    norm_df,        \* the table the last pass returned
    norm_passes,    \* how many passes have run
    norm_err,       \* "none", or the exception of the last pass
    \* _change_contract_name
    mat_codes,  \* the MATURITY_CODE column handed in
    mat_date,   \* the bulletin date, mm/dd/yyyy
    mat_out,    \* the column afterwards
    mat_err,    \* "none", or the exception raised
    mat_done,   \* whether the translator has run
    \* scrape
    pc,           \* "idle", "loop", "returned" or "raised"
    arg_contract, \* the contract argument
    start_date,   \* the first day of the range
    end_date,     \* the last day of the range
    update_db,    \* the update_db argument
    date_list,    \* pd.date_range(start_date, end_date)
    scrape_df,    \* the table accumulated by the loop
    calls,        \* the calls of _scrape_single_date so far, with what each returned
    fetches,      \* the requests.get calls so far
    scrape_err,   \* the exception that left scrape
    result,       \* what scrape returned
    \* the table B3futures
    store,        \* its rows
    db_unique,    \* whether it has a unique key on (contract, time_stamp, maturity_code)
    \* _send_df_to_db, called on its own
    sent_df,       \* the table of the last upload
    sent_contract, \* the contract argument of the last upload
    store_before,  \* the store before the last upload
    send_err,      \* "none", or the exception of the last upload
    n_sends        \* how many uploads have run

scanVars == <<contract, header, page, resp_str, core_v, row_df, df, cores, isrunning, scan_err>>

normVars == <<norm_contract, norm_in, norm_df, norm_passes, norm_err>>

matVars == <<mat_codes, mat_date, mat_out, mat_err, mat_done>>

scrapeVars == <<pc, arg_contract, start_date, end_date, update_db, date_list, scrape_df, calls,
                fetches, scrape_err, result>>

dbVars == <<store, db_unique>>

sendVars == <<sent_df, sent_contract, store_before, send_err, n_sends>>

vars == <<scanVars, normVars, matVars, scrapeVars, dbVars, sendVars>>

ScanIdle ==
    /\ contract = <<>>
    /\ header = <<>>
    /\ page = <<>>
    /\ resp_str = <<>>
    /\ core_v = <<>>
    /\ row_df = <<>>
    /\ df = <<>>
    /\ cores = <<>>
    /\ isrunning = FALSE
    /\ scan_err = "none"

NormIdle ==
    /\ norm_contract = <<>>
    /\ norm_in = EmptyFrame
    /\ norm_df = EmptyFrame
    /\ norm_passes = 0
    /\ norm_err = "none"

MatIdle ==
    /\ mat_codes = <<>>
    /\ mat_date = <<>>
    /\ mat_out = <<>>
    /\ mat_err = "none"
    /\ mat_done = FALSE

ScrapeIdle ==
    /\ pc = "idle"
    /\ arg_contract = <<>>
    /\ start_date = 0
    /\ end_date = 0
    /\ update_db = FALSE
    /\ date_list = <<>>
    /\ scrape_df = EmptyFrame
    /\ calls = <<>>
    /\ fetches = <<>>
    /\ scrape_err = NoError
    /\ result = [kind |-> "pending", df |-> EmptyFrame]

DbIdle ==
    /\ store = <<>>
    /\ db_unique = FALSE

SendIdle ==
    /\ sent_df = EmptyFrame
    /\ sent_contract = <<>>
    /\ store_before = <<>>
    /\ send_err = "none"
    /\ n_sends = 0

\* ------------------------------------------------------------------------
\* The scan loop of _scrape_single_date, one iteration per step
\* ------------------------------------------------------------------------

ScanInit ==
    /\ contract \in Supported
    /\ header = get_header(contract)
    /\ page \in ScanPages
    /\ resp_str = page
    /\ core_v = <<>>
    /\ row_df = <<>>
    /\ df = <<>>
    /\ cores = <<>>
    /\ isrunning = TRUE
    /\ scan_err = "none"
    /\ NormIdle /\ MatIdle /\ ScrapeIdle /\ DbIdle /\ SendIdle

\* an iteration that finds a row-start marker and appends the row
ScanRow ==
    /\ isrunning
    /\ scan_err = "none"
    /\ PyFind(resp_str, key_string_center) > -1
    /\ \E r \in {ScanOnce(resp_str, header)} :
           /\ r.err = "none"
           /\ core_v' = r.core_v
           /\ resp_str' = r.rest
           /\ row_df' = r.row
           /\ df' = Append(df, r.row)
           /\ cores' = Append(cores, r.core)
    /\ UNCHANGED <<contract, header, page, isrunning, scan_err>>
    /\ UNCHANGED <<normVars, matVars, scrapeVars, dbVars, sendVars>>

\* an iteration whose slicer indexes the header past its end
ScanRowRaises ==
    /\ isrunning
    /\ scan_err = "none"
    /\ PyFind(resp_str, key_string_center) > -1
    /\ \E r \in {ScanOnce(resp_str, header)} :
           /\ r.err # "none"
           /\ core_v' = r.core_v
           /\ resp_str' = r.rest
           /\ row_df' = r.row
           /\ cores' = Append(cores, r.core)
           /\ scan_err' = r.err
    /\ UNCHANGED <<contract, header, page, df, isrunning>>
    /\ UNCHANGED <<normVars, matVars, scrapeVars, dbVars, sendVars>>

\* the iteration that finds no row-start marker
ScanStop ==
    /\ isrunning
    /\ scan_err = "none"
    /\ PyFind(resp_str, key_string_center) = -1
    /\ isrunning' = FALSE
    /\ UNCHANGED <<contract, header, page, resp_str, core_v, row_df, df, cores, scan_err>>
    /\ UNCHANGED <<normVars, matVars, scrapeVars, dbVars, sendVars>>

ScanNext == ScanRow \/ ScanRowRaises \/ ScanStop

SpecScan == ScanInit /\ [][ScanNext]_vars

\* ------------------------------------------------------------------------
\* The normalisation steps applied to a table, once and then again
\* ------------------------------------------------------------------------

NormDate == FormatDate(8, 1, 2018)

NormMats == {StrCell(<<"F", "2", "3">>), NaN}

NormVals == {StrCell(<<"1", ".", "2", "3", "4", ",", "5", "6">>), StrCell(<<"a", "b", "c">>),
             StrCell(<<"1", ".", "5", "0">>), NaN}

\* a row as the slicer leaves it: a maturity code, one numeric field
RawRow(h, m, v) == [k \in 1..Len(h) |-> IF k = 1 THEN m ELSE IF k = 2 THEN v ELSE NaN]

RawTables(h) ==
    {RawFrame(h, NormDate, q) :
        q \in SeqsUpTo({RawRow(h, m, v) : m \in NormMats, v \in NormVals}, MaxNormRows) \ {<<>>}}

NormInit ==
    /\ norm_contract \in Supported
    /\ norm_in \in RawTables(get_header(norm_contract))
    /\ norm_df = norm_in
    /\ norm_passes = 0
    /\ norm_err = "none"
    /\ ScanIdle /\ MatIdle /\ ScrapeIdle /\ DbIdle /\ SendIdle

\* a pass that completes
NormPass ==
    /\ norm_passes < 2
    /\ norm_err = "none"
    /\ \E r \in {Normalize(norm_contract, NormDate, norm_df)} :
           /\ r.err = "none"
           /\ norm_df' = r.df
    /\ norm_in' = norm_df
    /\ norm_passes' = norm_passes + 1
    /\ UNCHANGED <<norm_contract, norm_err>>
    /\ UNCHANGED <<scanVars, matVars, scrapeVars, dbVars, sendVars>>

\* a pass that raises
NormPassRaises ==
    /\ norm_passes < 2
    /\ norm_err = "none"
    /\ \E r \in {Normalize(norm_contract, NormDate, norm_df)} :
           /\ r.err # "none"
           /\ norm_err' = r.err
    /\ norm_in' = norm_df
    /\ norm_passes' = norm_passes + 1
    /\ UNCHANGED <<norm_contract, norm_df>>
    /\ UNCHANGED <<scanVars, matVars, scrapeVars, dbVars, sendVars>>

NormNext == NormPass \/ NormPassRaises

SpecNorm == NormInit /\ [][NormNext]_vars

\* ------------------------------------------------------------------------
\* _change_contract_name applied to a MATURITY_CODE column
\* ------------------------------------------------------------------------

LegacyCodes == {abbr \o <<Digits[v]>> : abbr \in DOMAIN mat_dict, v \in 1..10}

MixCodes == {StrCell(<<"J", "A", "N", "8">>), StrCell(<<"D", "E", "Z", "0">>),
             StrCell(<<"F", "2", "3">>), NaN}

MatColumns == {<<StrCell(c)>> : c \in LegacyCodes} \cup (SeqsUpTo(MixCodes, MaxMatRows) \ {<<>>})

MatDates == {FormatDate(12, 31, y) : y \in 2000..2019}

MatInit ==
    /\ mat_codes \in MatColumns
    /\ mat_date \in MatDates
    /\ mat_out = mat_codes
    /\ mat_err = "none"
    /\ mat_done = FALSE
    /\ ScanIdle /\ NormIdle /\ ScrapeIdle /\ DbIdle /\ SendIdle

\* the translator returns
ChangeContractName ==
    /\ ~mat_done
    /\ \E r \in {change_contract_name(mat_codes, mat_date)} :
           /\ r.err = "none"
           /\ mat_out' = r.codes
    /\ mat_done' = TRUE
    /\ UNCHANGED <<mat_codes, mat_date, mat_err>>
    /\ UNCHANGED <<scanVars, normVars, scrapeVars, dbVars, sendVars>>

\* the translator raises
ChangeContractNameRaises ==
    /\ ~mat_done
    /\ \E r \in {change_contract_name(mat_codes, mat_date)} :
           /\ r.err # "none"
           /\ mat_err' = r.err
    /\ mat_done' = TRUE
    /\ UNCHANGED <<mat_codes, mat_date, mat_out>>
    /\ UNCHANGED <<scanVars, normVars, scrapeVars, dbVars, sendVars>>

MatNext == ChangeContractName \/ ChangeContractNameRaises

SpecMat == MatInit /\ [][MatNext]_vars

\* ------------------------------------------------------------------------
\* scrape: the date loop, one call of _scrape_single_date per step
\* ------------------------------------------------------------------------

\* every spelling of a supported code in upper and lower case
CaseVariants(c) == {[k \in 1..Len(c) |-> IF k \in S THEN LowerChar(c[k]) ELSE c[k]] : S \in SUBSET (1..Len(c))}

Unsupported == {<<"X", "Y", "Z">>, <<"d", "i", "2">>, <<"D", "I">>, <<"W", "I", "N">>, <<>>}

ContractInputs == UNION {CaseVariants(c) : c \in Supported} \cup Unsupported

FeedCell == RightCell(<<"1", ".", "5">>)

\* the pages the fetch may return: no rows, one row, two rows of legacy
\* codes, a legacy code followed by a canonical one
FeedPages ==
    {<<"a">>,
     ShortRow(<<"F", "2", "3">> \o str_sep, <<FeedCell>>),
     ShortRow(<<"J", "A", "N", "8">> \o str_sep, <<FeedCell>>)
        \o ShortRow(<<"F", "E", "V", "9">> \o str_sep, <<FeedCell>>),
     ShortRow(<<"J", "A", "N", "8">> \o str_sep, <<FeedCell>>)
        \o ShortRow(<<"F", "2", "3">> \o str_sep, <<FeedCell>>)}

Init ==
    /\ ScrapeIdle
    /\ store = <<>>
    /\ db_unique \in BOOLEAN
    /\ ScanIdle /\ NormIdle /\ MatIdle /\ SendIdle

\* the call, to the start of the loop: lines 73-87
Scrape ==
    /\ pc = "idle"
    /\ \E c \in ContractInputs, s \in 1..MaxDays, e \in 1..MaxDays, u \in BOOLEAN :
          /\ arg_contract' = c
          /\ start_date' = s
          /\ end_date' = e
          /\ update_db' = u
          /\ date_list' = date_range(s, e)
    /\ pc' = "loop"
    /\ scrape_df' = EmptyFrame
    /\ UNCHANGED <<calls, fetches, scrape_err, result>>
    /\ UNCHANGED <<scanVars, normVars, matVars, dbVars, sendVars>>

\* the call with update_db and a connect_dict that is no dict: line 74
ScrapeAssertRaises ==
    /\ pc = "idle"
    /\ \E c \in ContractInputs, s \in 1..MaxDays, e \in 1..MaxDays :
          /\ arg_contract' = c
          /\ start_date' = s
          /\ end_date' = e
    /\ update_db' = TRUE
    /\ pc' = "raised"
    /\ scrape_err' = Raised("AssertionError", <<>>)
    /\ UNCHANGED <<date_list, scrape_df, calls, fetches, result>>
    /\ UNCHANGED <<scanVars, normVars, matVars, dbVars, sendVars>>

\* the date of the next iteration
NextDay == date_list[Len(calls) + 1]

CallOf(d, r) == [date |-> d, header |-> r.header, kind |-> r.kind, rows |-> r.df.rows]

FetchOf(d, c) == [Data |-> DayString(d), Mercadoria |-> Upper(c)]

\* One iteration of the loop: the call returns a table, which is
\* concatenated, or returns None, or raises, which leaves scrape.
ScrapeDate ==
    /\ pc = "loop"
    /\ Len(calls) < Len(date_list)
    /\ \E text \in FeedPages :
          \E r \in {scrape_single_date(arg_contract, DayString(NextDay), text)} :
              /\ calls' = Append(calls, CallOf(NextDay, r))
              /\ fetches' = IF r.fetched THEN Append(fetches, FetchOf(NextDay, arg_contract))
                            ELSE fetches
              /\ \/ /\ r.kind = "df"
                    /\ scrape_df' = Concat(scrape_df, r.df)
                    /\ UNCHANGED <<pc, scrape_err>>
                 \/ /\ r.kind = "None"
                    /\ UNCHANGED <<pc, scrape_df, scrape_err>>
                 \/ /\ r.kind = "raise"
                    /\ pc' = "raised"
                    /\ scrape_err' = r.err
                    /\ UNCHANGED scrape_df
    /\ UNCHANGED <<arg_contract, start_date, end_date, update_db, date_list, result>>
    /\ UNCHANGED <<scanVars, normVars, matVars, dbVars, sendVars>>

\* after the loop, update_db false: the table is returned
ScrapeReturn ==
    /\ pc = "loop"
    /\ Len(calls) = Len(date_list)
    /\ ~update_db
    /\ pc' = "returned"
    /\ result' = [kind |-> "df", df |-> scrape_df]
    /\ UNCHANGED <<arg_contract, start_date, end_date, update_db, date_list, scrape_df, calls,
                   fetches, scrape_err>>
    /\ UNCHANGED <<scanVars, normVars, matVars, dbVars, sendVars>>

\* after the loop, update_db true: the upload, and None is returned
ScrapeSend ==
    /\ pc = "loop"
    /\ Len(calls) = Len(date_list)
    /\ update_db
    /\ \E r \in {send_df_to_db(scrape_df, arg_contract, store, db_unique)} :
           /\ r.err = "none"
           /\ store' = r.store
    /\ pc' = "returned"
    /\ result' = [kind |-> "None", df |-> EmptyFrame]
    /\ UNCHANGED <<arg_contract, start_date, end_date, update_db, date_list, scrape_df, calls,
                   fetches, scrape_err, db_unique>>
    /\ UNCHANGED <<scanVars, normVars, matVars, sendVars>>

\* after the loop, update_db true: the upload raises
ScrapeSendRaises ==
    /\ pc = "loop"
    /\ Len(calls) = Len(date_list)
    /\ update_db
    /\ \E r \in {send_df_to_db(scrape_df, arg_contract, store, db_unique)} :
           /\ r.err # "none"
           /\ scrape_err' = Raised(r.err, <<>>)
    /\ pc' = "raised"
    /\ UNCHANGED <<arg_contract, start_date, end_date, update_db, date_list, scrape_df, calls,
                   fetches, result>>
    /\ UNCHANGED <<scanVars, normVars, matVars, dbVars, sendVars>>

Next ==
    \/ Scrape
    \/ ScrapeAssertRaises
    \/ ScrapeDate
    \/ ScrapeReturn
    \/ ScrapeSend
    \/ ScrapeSendRaises

Spec == Init /\ [][Next]_vars

\* ------------------------------------------------------------------------
\* _send_df_to_db on the tables scrape can hand it, upload after upload
\* ------------------------------------------------------------------------

SendContracts == {<<"D", "I", "1">>, <<"d", "i", "1">>}

SendMats == {StrCell(<<"F", "2", "3">>), StrCell(<<"G", "2", "4">>)}

SendDays == 1..2

\* a table as _scrape_single_date returns it for DI1, of one row without
\* quotes: its columns and dtypes are those of every such table
ScrapedSample ==
    Normalize(<<"D", "I", "1">>, DayString(1),
              RawFrame(HeaderA, DayString(1), <<EmptyRow(HeaderA)>>)).df

\* one row of a scraped table of columns cols: the contract, the maturity
\* code, no quotes
ScrapedRow(cols, day, mat) ==
    [idx |-> day,
     vals |-> [k \in 1..Len(cols) |->
                  IF cols[k] = "CONTRACT" THEN StrCell(<<"D", "I", "1">>)
                  ELSE IF cols[k] = "MATURITY_CODE" THEN mat ELSE NaN]]

\* the table scrape accumulates for DI1 from rows q of (day, code) pairs,
\* with the columns and dtypes of sample; pd.DataFrame() if there are none
ScrapedTable(sample, q) ==
    IF q = <<>> THEN EmptyFrame
    ELSE FrameOf(sample.columns, sample.dtypes,
                 [k \in 1..Len(q) |-> ScrapedRow(sample.columns, q[k][1], q[k][2])])

\* rows in date order, as the loop of scrape leaves them
DateOrdered(q) == \A i, j \in 1..Len(q) : i < j => q[i][1] <= q[j][1]

SendRows == {q \in SeqsUpTo(SendDays \X SendMats, MaxSendRows) : DateOrdered(q)}

SendTables == UNION {{ScrapedTable(sample, q) : q \in SendRows} : sample \in {ScrapedSample}}

StoredRow(c, day, mat) == [contract |-> c, time_stamp |-> day, maturity_code |-> mat]

PriorStores == {<<>>} \cup {<<StoredRow(<<"D", "I", "1">>, d, m)>> : d \in SendDays, m \in SendMats}

PersistInit ==
    /\ store \in PriorStores
    /\ db_unique \in BOOLEAN
    /\ SendIdle
    /\ ScanIdle /\ NormIdle /\ MatIdle /\ ScrapeIdle

\* an upload that returns: the rows are appended, or the IntegrityError
\* of the append is caught
SendDfToDb ==
    /\ n_sends < MaxSends
    /\ send_err = "none"
    /\ \E arg \in SendContracts, t \in SendTables :
          \E r \in {send_df_to_db(t, arg, store, db_unique)} :
              /\ r.err = "none"
              /\ store' = r.store
              /\ sent_df' = t
              /\ sent_contract' = arg
    /\ store_before' = store
    /\ n_sends' = n_sends + 1
    /\ UNCHANGED <<db_unique, send_err>>
    /\ UNCHANGED <<scanVars, normVars, matVars, scrapeVars>>

\* an upload that raises
SendDfToDbRaises ==
    /\ n_sends < MaxSends
    /\ send_err = "none"
    /\ \E arg \in SendContracts, t \in SendTables :
          \E r \in {send_df_to_db(t, arg, store, db_unique)} :
              /\ r.err # "none"
              /\ send_err' = r.err
              /\ sent_df' = t
              /\ sent_contract' = arg
    /\ store_before' = store
    /\ n_sends' = n_sends + 1
    /\ UNCHANGED <<store, db_unique>>
    /\ UNCHANGED <<scanVars, normVars, matVars, scrapeVars>>

PersistNext == SendDfToDb \/ SendDfToDbRaises

SpecPersist == PersistInit /\ [][PersistNext]_vars

\* ------------------------------------------------------------------------
\* Properties of the row scanner and the field slicer (SpecScan)
\* ------------------------------------------------------------------------

\* how many times p occurs in s
Occurrences(s, p) == Cardinality({i \in 0..(Len(s) - Len(p)) : \A k \in 1..Len(p) : s[i + k] = p[k]})

\* the positions at which p occurs in s
Positions(s, p) == {i \in 0..(Len(s) - Len(p)) : \A k \in 1..Len(p) : s[i + k] = p[k]}

\* two row-start markers, then exactly one bulletin-end marker
TwoStartsOneEnd(text) ==
    /\ Occurrences(text, key_string_center) = 2
    /\ Occurrences(text, merc_identifier) = 1
    /\ \A i \in Positions(text, key_string_center) : \A j \in Positions(text, merc_identifier) : i < j

\* the loop has ended without an exception
ScanDone == ~isrunning /\ page # <<>> /\ scan_err = "none"

HasNoMarker(x) == Occurrences(x, sep_string_center) = 0 /\ Occurrences(x, sep_string_right) = 0

\* C2: in the row built from the last fragment, every field whose retained
\* sub-fragment holds neither the center-aligned nor the right-aligned
\* cell marker is null, and the slicer raised nothing.
C2_MarkerlessFieldNull ==
    \A k \in 1..(Len(core_v) - 5) :
        (k <= Len(row_df) /\ HasNoMarker(core_v[k])) => (row_df[k] = NaN /\ scan_err = "none")

\* the number of field separators of the last fragment
Separators == Occurrences(cores[Len(cores)], item_sep)

\* C9, as stated: a fragment with N+5 field separators, N the length of
\* the contract's header, leaves N retained sub-fragments and the index
\* into the header never reaches N.
C9_FivePastHeader ==
    (cores # <<>> /\ Separators = Len(header) + 5) =>
        (Len(PyDropLast(core_v, 5)) = Len(header) /\ scan_err = "none")

\* C9, amended: a fragment with N+4 field separators (N+5
\* sub-fragments), N the length of the contract's header, leaves N
\* retained sub-fragments, and the index into the header never reaches N.
C9_FourPastHeader ==
    (cores # <<>> /\ Separators = Len(header) + 4) =>
        (Len(PyDropLast(core_v, 5)) = Len(header) /\ scan_err = "none")

\* a row of N+4 separators was sliced into N fields, the last one filled
C9_Witness ==
    /\ cores # <<>>
    /\ Separators = Len(header) + 4
    /\ scan_err = "none"
    /\ Len(row_df) = Len(header)
    /\ row_df[Len(header)] # NaN

\* C10: a fragment whose row-start marker is followed by no bulletin-end
\* marker (it is shorter than the marker itself) is the last fragment
\* the scanner yields.
C10_MissingEndStops == \A j \in 1..Len(cores) : Len(cores[j]) < lkeyc => j = Len(cores)

\* ------------------------------------------------------------------------
\* Properties of the maturity translator (SpecMat)
\* ------------------------------------------------------------------------

Months == <<<<"J", "A", "N">>, <<"F", "E", "V">>, <<"M", "A", "R">>, <<"A", "B", "R">>,
            <<"M", "A", "I">>, <<"J", "U", "N">>, <<"J", "U", "L">>, <<"A", "G", "O">>,
            <<"S", "E", "T">>, <<"O", "U", "T">>, <<"N", "O", "V">>, <<"D", "E", "Z">>>>

MonthLetters == <<"F", "G", "H", "J", "K", "M", "N", "Q", "U", "V", "X", "Z">>

\* the canonical form of legacy code s on a bulletin of year digit y
Canonical(s, y) ==
    LET m == CHOOSE i \in 1..12 : Months[i] = SubSeq(s, 1, 3)
        d == CHOOSE v \in 0..9 : Digits[v + 1] = s[4]
    IN  StrCell(<<MonthLetters[m], IF d >= y THEN "0" ELSE "1", s[4]>>)

\* the last digit of the year of the bulletin date
YearDigit == CHOOSE v \in 0..9 : Digits[v + 1] = mat_date[Len(mat_date)]

IsLegacy(cell) == cell.kind = "str" /\ Len(cell.s) = 4 /\ \E i \in 1..12 : Months[i] = SubSeq(cell.s, 1, 3)

\* C3: after the translator ran on a column of string codes, every code
\* of length 3 is as it was and every legacy code of length 4 is in
\* canonical form, whatever the other rows hold.
C3_PerRow ==
    (mat_done /\ \A k \in 1..Len(mat_codes) : mat_codes[k].kind = "str") =>
        \A k \in 1..Len(mat_codes) :
            /\ (Len(mat_codes[k].s) = 3 => mat_out[k] = mat_codes[k])
            /\ (IsLegacy(mat_codes[k]) => mat_out[k] = Canonical(mat_codes[k].s, YearDigit))

\* C4: a one-row column holding a month abbreviation M and a digit d, on
\* a bulletin whose year ends in y, comes out as letter(M), then "0" if
\* d >= y and "1" if d < y, then d; JAN8 gives F08 for a year ending in 0
\* and F18 for a year ending in 9.
C4_Decade ==
    (mat_done /\ Len(mat_codes) = 1 /\ IsLegacy(mat_codes[1]) /\ mat_codes[1].s[4] \in {Digits[v] : v \in 1..10}) =>
        /\ mat_err = "none"
        /\ mat_out = <<Canonical(mat_codes[1].s, YearDigit)>>
        /\ (mat_codes[1].s = <<"J", "A", "N", "8">> /\ YearDigit = 0
               => mat_out = <<StrCell(<<"F", "0", "8">>)>>)
        /\ (mat_codes[1].s = <<"J", "A", "N", "8">> /\ YearDigit = 9
               => mat_out = <<StrCell(<<"F", "1", "8">>)>>)
        /\ (mat_codes[1].s = <<"J", "A", "N", "8">> /\ YearDigit = 8
               => mat_out = <<StrCell(<<"F", "0", "8">>)>>)

\* the tie: JAN8 translated on a bulletin of a year ending in 8
C4_Witness ==
    /\ mat_done
    /\ mat_codes = <<StrCell(<<"J", "A", "N", "8">>)>>
    /\ YearDigit = 8
    /\ mat_out = <<StrCell(<<"F", "0", "8">>)>>

\* ------------------------------------------------------------------------
\* Properties of the normalisation steps (SpecNorm)
\* ------------------------------------------------------------------------

\* C5: the second pass of the normalisation steps, run on the table the
\* first pass returned, completes without error and returns a table
\* identical to the one it was given.
C5_Idempotent == norm_passes = 2 => (norm_err = "none" /\ norm_df = norm_in)

\* ------------------------------------------------------------------------
\* Properties of the upload (SpecPersist)
\* ------------------------------------------------------------------------

\* the (contract, date, maturity_code) keys of the rows of the last upload
SentKeys ==
    {StoredRow(sent_df.rows[r].vals[ColumnOf(sent_df, "CONTRACT")].s, sent_df.rows[r].idx,
               sent_df.rows[r].vals[ColumnOf(sent_df, "MATURITY_CODE")]) : r \in 1..Len(sent_df.rows)}

\* C6: after an upload, every key of the uploaded table is stored, and
\* stored once, whatever the store held before.
C6_AtMostOnce ==
    n_sends > 0 => \A key \in SentKeys : Cardinality({j \in 1..Len(store) : store[j] = key}) = 1

\* ------------------------------------------------------------------------
\* Properties of scrape (Spec)
\* ------------------------------------------------------------------------

\* arg spells code c in some mix of upper and lower case
SpellingOf(arg, c) == Len(arg) = Len(c) /\ \A k \in 1..Len(c) : arg[k] \in {c[k], LowerChar(c[k])}

IsSupported(arg) == \E c \in Supported : SpellingOf(arg, c)

\* the field list of the family of the code arg spells
FamilyHeader(arg) ==
    IF \E c \in FamilyA : SpellingOf(arg, c) THEN HeaderA
    ELSE IF \E c \in FamilyB : SpellingOf(arg, c) THEN HeaderB
    ELSE HeaderC

\* C7: for a contract argument that spells no supported code, nothing is
\* ever fetched, every single-date call raises, scrape is left with an
\* AttributeError naming the upper-cased code and returns no table with
\* rows; for a spelling of a supported code every single-date call looked
\* up the field list of the code's family.
C7_Unsupported ==
    /\ (pc # "idle" /\ ~IsSupported(arg_contract)) =>
          /\ fetches = <<>>
          /\ result.df.rows = <<>>
          /\ scrape_df.rows = <<>>
          /\ \A k \in 1..Len(calls) : calls[k].kind = "raise"
          /\ (calls # <<>> =>
                 /\ pc = "raised"
                 /\ result.kind = "pending"
                 /\ scrape_err.type = "AttributeError"
                 /\ Len(scrape_err.names) = Len(arg_contract)
                 /\ \A k \in 1..Len(arg_contract) :
                        arg_contract[k] \in {scrape_err.names[k], LowerChar(scrape_err.names[k])})
    /\ (pc # "idle" /\ IsSupported(arg_contract)) =>
          \A k \in 1..Len(calls) : calls[k].header = FamilyHeader(arg_contract)

\* scrape of the unsupported "di2" was left by the error naming DI2, with
\* nothing fetched
C7_Witness ==
    /\ pc = "raised"
    /\ arg_contract = <<"d", "i", "2">>
    /\ scrape_err = Raised("AttributeError", <<"D", "I", "2">>)
    /\ Len(calls) = 1
    /\ fetches = <<>>

\* the days of the inclusive range
RangeLength == IF end_date >= start_date THEN end_date - start_date + 1 ELSE 0

\* C8: the k-th single-date call is for the k-th day of the range, no
\* day is called after the last; when scrape returns, every day of the
\* inclusive range was called once; a call that returned None added no
\* rows; the rows of the accumulated table are the rows the calls
\* returned, call after call, each call's rows in their order, and so in
\* non-decreasing date order.
C8_DateOrder ==
    /\ Len(calls) <= RangeLength
    /\ \A k \in 1..Len(calls) : calls[k].date = start_date + k - 1
    /\ (pc = "returned" => Len(calls) = RangeLength)
    /\ \A k \in 1..Len(calls) : calls[k].kind # "df" => calls[k].rows = <<>>
    /\ scrape_df.rows = Cat([k \in 1..Len(calls) |-> calls[k].rows])
    /\ \A i, j \in 1..Len(scrape_df.rows) : i < j => scrape_df.rows[i].idx <= scrape_df.rows[j].idx
    /\ \A k \in 1..Len(calls) : \A r \in 1..Len(calls[k].rows) : calls[k].rows[r].idx = calls[k].date
    /\ (result.kind = "df" => result.df = scrape_df)

\* scrape returned the table of a two-day range: a day without rows, then
\* a day of two rows
C8_Witness ==
    /\ pc = "returned"
    /\ result.kind = "df"
    /\ Len(calls) = 2
    /\ calls[1].kind = "None"
    /\ calls[2].kind = "df"
    /\ Len(result.df.rows) = 2
    /\ result.df.rows[1].idx = end_date

====
